---- MODULE Spec2Model ----
(***************************************************************************)
(* pom-tui: a terminal countdown timer (src/main.rs).                      *)
(*                                                                         *)
(* The model follows main() and run_app() statement by statement.  `pc` is *)
(* the position of the single thread of control.  The wall clock           *)
(* (Utc::now()) is environment state: an absolute count of ticks of 100ms  *)
(* that only moves forward; the program reads it through .time(), i.e. as  *)
(* a time of day, which wraps at midnight.                                 *)
(***************************************************************************)
EXTENDS Integers, Sequences, FiniteSets, TLC

\* ---- bounds of the model ------------------------------------------------
\* seconds in a (shortened) day: NaiveTime wraps after DaySecs seconds
DaySecs == 3
\* the wall clock is followed for MaxClock ticks
MaxClock == 44
\* the Up key is followed until the target reaches MaxTime
MaxTime == 2

\* ---- constants of the program -------------------------------------------
\* Duration::from_millis(100): the poll timeout; one clock tick is one timeout
PollMillis == 100
TicksPerSec == 1000 \div PollMillis
DayTicks == DaySecs * TicksPerSec

VARIABLES
    pc,          \* position in main / run_app
    raw,         \* terminal is in raw mode
    alt,         \* terminal shows the alternate screen
    mouse,       \* mouse capture is enabled
    time,        \* app.time    (target seconds)
    elapsed,     \* app.elapsed
    mode,        \* app.mode
    start,       \* run_app's `start`: a time of day, in ticks
    clock,       \* the wall clock (Utc::now()), absolute ticks
    confirmedAt, \* the wall clock reading behind `start` (absolute ticks)
    ev,          \* the event read in this loop iteration
    arm,         \* the arm of the loop body taken in this iteration
    frame,       \* the last frame drawn by ui
    result,      \* the value returned by run_app
    mainResult,  \* the value returned by main
    stdout,      \* what println! wrote
    stderr,      \* what the runtime wrote for an Err returned by main
    exitStatus   \* process exit status, -1 while running

vars == <<pc, raw, alt, mouse, time, elapsed, mode, start, clock, confirmedAt,
          ev, arm, frame, result, mainResult, stdout, stderr, exitStatus>>

appVars == <<time, elapsed, mode>>
termVars == <<raw, alt, mouse>>
outVars == <<result, mainResult, stdout, stderr, exitStatus>>
iterVars == <<ev, arm>>
startVars == <<start, confirmedAt>>

\* ---- values --------------------------------------------------------------
Modes == {"Input", "Running"}

\* KeyCode values: the five the program matches on and one that it does not
KeyCodes == {"q", "Up", "Down", "Enter", "Esc", "x"}

\* Event values: Event::Key(code), Event::Mouse, Event::Resize
Events == KeyCodes \cup {"Mouse", "Resize"}

\* io::Error values raised inside run_app, named after the failing call
LoopErrors == {"draw", "poll", "read"}

\* io::Error values raised by main's own calls
MainErrors == {"enable_raw_mode", "execute_enter", "Terminal_new",
               "disable_raw_mode", "execute_leave"}

NoFrame == [text |-> 0, fg |-> "blank", blink |-> FALSE, instruction |-> "blank"]

\* ---- pure functions ------------------------------------------------------
\* Utc::now().time(): the time of day of a wall clock reading
TimeOfDay(c) == c % DayTicks

\* Duration::num_seconds(): whole seconds, truncated toward zero
num_seconds(d) == IF d >= 0 THEN d \div TicksPerSec ELSE -((-d) \div TicksPerSec)

\* ui with the two colours exchanged
ui_ColoursSwapped(app_mode, app_time, app_elapsed) ==
    LET time_left == app_time - app_elapsed
    IN  [text |-> time_left,
         fg |-> IF app_mode = "Input" THEN "default"
                ELSE IF time_left = 0 THEN "Green" ELSE "Red",
         blink |-> app_mode = "Running",
         instruction |-> app_mode]

\* the frame ui() renders from the app state
ui(app_mode, app_time, app_elapsed) ==
    LET time_left == app_time - app_elapsed
    IN  [text |-> time_left,
         fg |-> IF app_mode = "Input" THEN "default"
                ELSE IF time_left = 0 THEN "Red" ELSE "Green",
         blink |-> app_mode = "Running",
         instruction |-> app_mode]

\* ---- initial state -------------------------------------------------------
Init ==
    /\ pc = "enable_raw_mode"
    /\ raw = FALSE /\ alt = FALSE /\ mouse = FALSE
    /\ time = 0 /\ elapsed = 0 /\ mode = "Input"
    /\ start = 0 /\ confirmedAt = 0
    /\ clock = 0
    /\ ev = "none" /\ arm = "none"
    /\ frame = NoFrame
    /\ result = "none" /\ mainResult = "none"
    /\ stdout = "none" /\ stderr = "none"
    /\ exitStatus = -1

\* ---- the environment -----------------------------------------------------
\* real time passes while the process is alive
Tick ==
    /\ pc # "exited"
    /\ clock < MaxClock
    /\ clock' = clock + 1
    /\ UNCHANGED <<pc, termVars, appVars, startVars, iterVars, frame, outVars>>

\* ---- main ----------------------------------------------------------------
\* a `?` in main: main returns Err(e)
MainReturnsErr(e) ==
    /\ mainResult' = e
    /\ pc' = "main_returned"
    /\ UNCHANGED <<appVars, startVars, clock, iterVars, frame, result,
                   stdout, stderr, exitStatus>>

enable_raw_mode_Ok ==
    /\ pc = "enable_raw_mode"
    /\ raw' = TRUE
    /\ pc' = "execute_enter"
    /\ UNCHANGED <<alt, mouse, appVars, startVars, clock, iterVars, frame, outVars>>

enable_raw_mode_Err ==
    /\ pc = "enable_raw_mode"
    /\ UNCHANGED termVars
    /\ MainReturnsErr("enable_raw_mode")

execute_enter_Ok ==
    /\ pc = "execute_enter"
    /\ alt' = TRUE
    /\ mouse' = TRUE
    /\ pc' = "Terminal_new"
    /\ UNCHANGED <<raw, appVars, startVars, clock, iterVars, frame, outVars>>

execute_enter_Err ==
    /\ pc = "execute_enter"
    /\ UNCHANGED termVars
    /\ MainReturnsErr("execute_enter")

Terminal_new_Ok ==
    /\ pc = "Terminal_new"
    /\ pc' = "run_app"
    /\ UNCHANGED <<termVars, appVars, startVars, clock, iterVars, frame, outVars>>

Terminal_new_Err ==
    /\ pc = "Terminal_new"
    /\ UNCHANGED termVars
    /\ MainReturnsErr("Terminal_new")

\* ---- run_app -------------------------------------------------------------
\* a `?` in run_app: the loop is left and run_app returns Err(e)
RunAppReturnsErr(e) ==
    /\ result' = e
    /\ pc' = "disable_raw_mode"
    /\ UNCHANGED <<termVars, appVars, startVars, clock, iterVars, frame,
                   mainResult, stdout, stderr, exitStatus>>

\* let mut start = Utc::now().time();
run_app_entry ==
    /\ pc = "run_app"
    /\ start' = TimeOfDay(clock)
    /\ confirmedAt' = clock
    /\ pc' = "draw"
    /\ UNCHANGED <<termVars, appVars, clock, iterVars, frame, outVars>>

\* terminal.draw(|f| ui(f, &app))?
draw_Ok ==
    /\ pc = "draw"
    /\ frame' = ui(mode, time, elapsed)
    /\ pc' = "poll"
    /\ UNCHANGED <<termVars, appVars, startVars, clock, iterVars, outVars>>

draw_Err ==
    /\ pc = "draw"
    /\ RunAppReturnsErr("draw")

\* poll(Duration::from_millis(100))? returns true: an event is waiting
poll_Ready ==
    /\ pc = "poll"
    /\ pc' = "read"
    /\ ev' = "none"
    /\ arm' = "none"
    /\ UNCHANGED <<termVars, appVars, startVars, clock, frame, outVars>>

\* poll returns false: the whole timeout has passed without an event
poll_Timeout ==
    /\ pc = "poll"
    /\ clock + 1 <= MaxClock
    /\ clock' = clock + 1
    /\ ev' = "none"
    /\ arm' = "timeout"
    /\ pc' = "time_advance"
    /\ UNCHANGED <<termVars, appVars, startVars, frame, outVars>>

poll_Err ==
    /\ pc = "poll"
    /\ RunAppReturnsErr("poll")

\* read()? returns an event
read_Ok ==
    /\ pc = "read"
    /\ \E e \in Events : ev' = e
    /\ pc' = "dispatch"
    /\ UNCHANGED <<termVars, appVars, startVars, clock, arm, frame, outVars>>

read_Err ==
    /\ pc = "read"
    /\ RunAppReturnsErr("read")

\* KeyCode::Char('q') => return Ok(())
KeyQuit ==
    /\ result' = "Ok"
    /\ pc' = "disable_raw_mode"
    /\ arm' = "quit"
    /\ UNCHANGED <<appVars, startVars, mainResult, stdout, stderr, exitStatus>>

\* KeyCode::Up => app.time += 1
KeyUp ==
    /\ time < MaxTime
    /\ time' = time + 1
    /\ arm' = "increase"
    /\ pc' = "time_advance"
    /\ UNCHANGED <<elapsed, mode, startVars, outVars>>

\* KeyDown without the `!= 0` test
KeyDown_NoGuard ==
    /\ time' = time - 1
    /\ arm' = "decrease"
    /\ pc' = "time_advance"
    /\ UNCHANGED <<elapsed, mode, startVars, outVars>>

\* KeyCode::Down => if app.time != 0 { app.time -= 1; }
KeyDown ==
    /\ time' = IF time # 0 THEN time - 1 ELSE time
    /\ arm' = "decrease"
    /\ pc' = "time_advance"
    /\ UNCHANGED <<elapsed, mode, startVars, outVars>>

\* KeyEnter without `start = Utc::now().time()`
KeyEnter_NoCapture ==
    /\ mode' = "Running"
    /\ arm' = "confirm"
    /\ pc' = "time_advance"
    /\ UNCHANGED <<time, elapsed, startVars, outVars>>

\* KeyCode::Enter => { app.mode = Modes::Running; start = Utc::now().time(); }
KeyEnter ==
    /\ mode' = "Running"
    /\ start' = TimeOfDay(clock)
    /\ confirmedAt' = clock
    /\ arm' = "confirm"
    /\ pc' = "time_advance"
    /\ UNCHANGED <<time, elapsed, outVars>>

\* _ => {}  and the keys Running mode does not act on
KeyIgnored ==
    /\ arm' = "ignored"
    /\ pc' = "time_advance"
    /\ UNCHANGED <<appVars, startVars, outVars>>

\* KeyEsc without `app.elapsed = 0`
KeyEsc_KeepsElapsed ==
    /\ mode' = "Input"
    /\ arm' = "cancel"
    /\ pc' = "time_advance"
    /\ UNCHANGED <<time, elapsed, startVars, outVars>>

\* if key.code == KeyCode::Esc { app.elapsed = 0; app.mode = Modes::Input; }
KeyEsc ==
    /\ elapsed' = 0
    /\ mode' = "Input"
    /\ arm' = "cancel"
    /\ pc' = "time_advance"
    /\ UNCHANGED <<time, startVars, outVars>>

\* Modes::Input => match key.code { ... }
InputMode(code) ==
    CASE code = "q" -> KeyQuit
      [] code = "Up" -> KeyUp
      [] code = "Down" -> KeyDown
      [] code = "Enter" -> KeyEnter
      [] OTHER -> KeyIgnored

\* RunningMode with `!=` for `==`
RunningMode_NotEsc(code) ==
    IF code # "Esc" THEN KeyEsc ELSE KeyIgnored

\* RunningMode that also quits on q
RunningMode_QuitOnQ(code) ==
    IF code = "Esc" THEN KeyEsc ELSE IF code = "q" THEN KeyQuit ELSE KeyIgnored

\* Modes::Running => if key.code == KeyCode::Esc { ... }
RunningMode(code) ==
    IF code = "Esc" THEN KeyEsc ELSE KeyIgnored

\* MatchMode without the match on app.mode
MatchMode_InputOnly(code) ==
    InputMode(code)

\* match app.mode { ... }
MatchMode(code) ==
    IF mode = "Input" THEN InputMode(code) ELSE RunningMode(code)

\* dispatch that goes back to the top of the loop on an event that is no key
dispatch_NonKeyContinues ==
    /\ pc = "dispatch"
    /\ IF ev \in KeyCodes
         THEN MatchMode(ev)
         ELSE /\ arm' = "not_a_key"
              /\ pc' = "draw"
              /\ UNCHANGED <<appVars, startVars, outVars>>
    /\ UNCHANGED <<termVars, clock, ev, frame>>

\* if let Event::Key(key) = read()? { match app.mode { ... } }
dispatch ==
    /\ pc = "dispatch"
    /\ IF ev \in KeyCodes
         THEN MatchMode(ev)
         ELSE /\ arm' = "not_a_key"
              /\ pc' = "time_advance"
              /\ UNCHANGED <<appVars, startVars, outVars>>
    /\ UNCHANGED <<termVars, clock, ev, frame>>

\* app.elapsed = (Utc::now().time() - start).num_seconds();
\* if (app.elapsed >= app.time) { app.elapsed = app.time; }
Recompute(now, app_time) ==
    LET e == num_seconds(TimeOfDay(now) - start)
    IN  IF e >= app_time THEN app_time ELSE e

\* time_advance placed in an else branch of the poll: skipped after an event
time_advance_OnlyOnTimeout ==
    /\ pc = "time_advance"
    /\ elapsed' = IF mode = "Running" /\ arm = "timeout"
                    THEN Recompute(clock, time) ELSE elapsed
    /\ pc' = "draw"
    /\ UNCHANGED <<termVars, time, mode, startVars, clock, iterVars, frame, outVars>>

\* time_advance without the test of app.mode
time_advance_AnyMode ==
    /\ pc = "time_advance"
    /\ elapsed' = Recompute(clock, time)
    /\ pc' = "draw"
    /\ UNCHANGED <<termVars, time, mode, startVars, clock, iterVars, frame, outVars>>

\* if let Modes::Running = app.mode { ... }, then back to the top of the loop
time_advance ==
    /\ pc = "time_advance"
    /\ elapsed' = IF mode = "Running" THEN Recompute(clock, time) ELSE elapsed
    /\ pc' = "draw"
    /\ UNCHANGED <<termVars, time, mode, startVars, clock, iterVars, frame, outVars>>

\* ---- main, after run_app has returned -----------------------------------
disable_raw_mode_Ok ==
    /\ pc = "disable_raw_mode"
    /\ raw' = FALSE
    /\ pc' = "execute_leave"
    /\ UNCHANGED <<alt, mouse, appVars, startVars, clock, iterVars, frame, outVars>>

disable_raw_mode_Err ==
    /\ pc = "disable_raw_mode"
    /\ UNCHANGED termVars
    /\ MainReturnsErr("disable_raw_mode")

execute_leave_Ok ==
    /\ pc = "execute_leave"
    /\ alt' = FALSE
    /\ mouse' = FALSE
    /\ pc' = "report"
    /\ UNCHANGED <<raw, appVars, startVars, clock, iterVars, frame, outVars>>

execute_leave_Err ==
    /\ pc = "execute_leave"
    /\ UNCHANGED termVars
    /\ MainReturnsErr("execute_leave")

\* report printing nothing
report_NoPrint ==
    /\ pc = "report"
    /\ mainResult' = "Ok"
    /\ pc' = "main_returned"
    /\ UNCHANGED <<termVars, appVars, startVars, clock, iterVars, frame,
                   result, stdout, stderr, exitStatus>>

\* if let Err(err) = result { println!("{:?}", err); };  Ok(())
report ==
    /\ pc = "report"
    /\ stdout' = IF result \in LoopErrors THEN result ELSE stdout
    /\ mainResult' = "Ok"
    /\ pc' = "main_returned"
    /\ UNCHANGED <<termVars, appVars, startVars, clock, iterVars, frame,
                   result, stderr, exitStatus>>

\* fn main() -> Result<(), Box<dyn Error>>: the runtime turns Ok(()) into exit
\* status 0, and Err(e) into a report of e on standard error and status 1
process_exit ==
    /\ pc = "main_returned"
    /\ exitStatus' = IF mainResult = "Ok" THEN 0 ELSE 1
    /\ stderr' = IF mainResult = "Ok" THEN stderr ELSE mainResult
    /\ pc' = "exited"
    /\ UNCHANGED <<termVars, appVars, startVars, clock, iterVars, frame,
                   result, mainResult, stdout>>

\* ---- the specification ---------------------------------------------------
Next ==
    \/ Tick
    \/ enable_raw_mode_Ok \/ enable_raw_mode_Err
    \/ execute_enter_Ok \/ execute_enter_Err
    \/ Terminal_new_Ok \/ Terminal_new_Err
    \/ run_app_entry
    \/ draw_Ok \/ draw_Err
    \/ poll_Ready \/ poll_Timeout \/ poll_Err
    \/ read_Ok \/ read_Err
    \/ dispatch
    \/ time_advance
    \/ disable_raw_mode_Ok \/ disable_raw_mode_Err
    \/ execute_leave_Ok \/ execute_leave_Err
    \/ report
    \/ process_exit

Spec == Init /\ [][Next]_vars

TypeOK ==
    /\ pc \in {"enable_raw_mode", "execute_enter", "Terminal_new", "run_app",
               "draw", "poll", "read", "dispatch", "time_advance",
               "disable_raw_mode", "execute_leave", "report",
               "main_returned", "exited"}
    /\ raw \in BOOLEAN /\ alt \in BOOLEAN /\ mouse \in BOOLEAN
    /\ time \in 0..MaxTime
    /\ elapsed \in -DaySecs..MaxTime
    /\ mode \in Modes
    /\ start \in 0..(DayTicks - 1)
    /\ clock \in 0..MaxClock
    /\ confirmedAt \in 0..MaxClock
    /\ ev \in Events \cup {"none"}
    /\ arm \in {"none", "timeout", "quit", "increase", "decrease", "confirm",
                "ignored", "cancel", "not_a_key"}
    /\ result \in {"none", "Ok"} \cup LoopErrors
    /\ mainResult \in {"none", "Ok"} \cup MainErrors
    /\ stdout \in {"none"} \cup LoopErrors
    /\ stderr \in {"none"} \cup MainErrors
    /\ exitStatus \in {-1, 0, 1}

\* ---- properties ----------------------------------------------------------

\* C1: in every reachable state 0 <= elapsed <= time.
C1_ElapsedWithinTarget ==
    0 <= elapsed /\ elapsed <= time

\* C2: time is never negative; a Down key in Input mode leaves time = 0 at 0
\* and lowers any time > 0 by exactly 1.
C2_DecreaseFloorsAtZero ==
    [][ /\ time >= 0 /\ time' >= 0
        /\ (pc = "dispatch" /\ pc' # pc /\ mode = "Input" /\ ev = "Down")
             => time' = (IF time = 0 THEN 0 ELSE time - 1) ]_vars

\* a Down key was dispatched in Input mode while the target drawn was 0
C2_Witness ==
    /\ pc = "time_advance" /\ arm = "decrease"
    /\ frame.instruction = "Input" /\ frame.text = 0 /\ time = 0

\* C3: the loop iteration in which Enter was dispatched in Input mode ends
\* with mode = Running, elapsed = 0 and start = the clock read at the key.
C3_ConfirmEndsAtZero ==
    (pc = "draw" /\ arm = "confirm")
        => /\ mode = "Running"
           /\ elapsed = 0
           /\ start = TimeOfDay(confirmedAt)

\* C4: Esc dispatched in Running mode sets elapsed = 0 and mode = Input and
\* keeps time, and the iteration ends in that state, whatever elapsed was.
C4_CancelResets ==
    [][ /\ (pc = "dispatch" /\ pc' # pc /\ mode = "Running" /\ ev = "Esc")
             => (elapsed' = 0 /\ mode' = "Input" /\ time' = time)
        /\ (pc = "time_advance" /\ arm = "cancel")
             => (elapsed' = 0 /\ mode' = "Input" /\ time' = time) ]_vars

\* an iteration that drew remaining 0 in red (elapsed = time > 0) has ended
\* after a cancel
C4_Witness ==
    /\ pc = "draw" /\ arm = "cancel"
    /\ frame.fg = "Red" /\ time > 0
    /\ mode = "Input" /\ elapsed = 0

\* C5: while the mode stays Running, elapsed never decreases from one step to
\* the next and never exceeds time.
C5_ElapsedMonotone ==
    [][ (mode = "Running" /\ mode' = "Running")
            => (elapsed' >= elapsed /\ elapsed' <= time') ]_vars

\* C6: a time-advance that runs time or more seconds of real time after the
\* confirm leaves remaining = 0, which the next frame shows in red.
C6_ExpiredStaysZero ==
    [][ (/\ pc = "time_advance" /\ pc' = "draw" /\ mode = "Running"
         /\ clock - confirmedAt >= time * TicksPerSec)
            => (/\ time' - elapsed' = 0
                /\ ui(mode', time', elapsed').fg = "Red") ]_vars

\* C7: whenever the process has exited, the terminal is restored.
C7_TerminalRestored ==
    pc = "exited" => (~raw /\ ~alt /\ ~mouse)

C9_OtherKeysIgnored ==
    [][ /\ (/\ pc = "dispatch" /\ pc' # pc
            /\ \/ (mode = "Input" /\ ev \in KeyCodes \ {"q", "Up", "Down", "Enter"})
               \/ (mode = "Running" /\ ev \in KeyCodes \ {"Esc"}))
             => (/\ UNCHANGED <<mode, time, start, elapsed>>
                 /\ arm' = "ignored")
        /\ (pc = "time_advance" /\ arm = "ignored")
             => UNCHANGED <<mode, time, start>> ]_vars

\* an iteration in which q was read in Running mode has ended, still Running
C9_Witness ==
    pc = "draw" /\ arm = "ignored" /\ ev = "q" /\ mode = "Running"

\* C10: time changes only in the dispatch of a key in Input mode: no step
\* taken in Running mode, and no step other than a dispatch, changes it.
C10_TargetOnlyInInput ==
    [][ (mode = "Running" \/ pc # "dispatch") => time' = time ]_vars

\* an iteration in which Up was read in Running mode has ended with the
\* target below the largest one followed
C10_Witness ==
    /\ pc = "draw" /\ mode = "Running" /\ ev = "Up"
    /\ time > 0 /\ time < MaxTime

\* C11: a frame drawn in Running mode shows a remaining time >= 0, in green
\* when it is > 0 and in red when it is 0; a frame drawn in Input mode has
\* the default style; and remaining is never negative while Running.
C11_ColourByRemaining ==
    /\ (mode = "Running" => time - elapsed >= 0)
    /\ (frame.instruction = "Running"
          => /\ frame.text >= 0
             /\ (frame.text > 0 => frame.fg = "Green")
             /\ (frame.text = 0 => frame.fg = "Red"))
    /\ (frame.instruction = "Input" => frame.fg = "default")
    /\ (pc = "poll" => frame = [text |-> time - elapsed,
                                fg |-> frame.fg,
                                blink |-> mode = "Running",
                                instruction |-> mode])

\* a red 0 has just been drawn for a positive target
C11_Witness ==
    /\ pc = "poll" /\ mode = "Running" /\ time > 0
    /\ frame.text = 0 /\ frame.fg = "Red"

\* C12: a time-advance in Running mode leaves elapsed = the whole seconds of
\* real time since the confirm, clamped to 0..time.
C12_ElapsedIsClampedDifference ==
    [][ (pc = "time_advance" /\ pc' = "draw" /\ mode = "Running")
            => LET d == num_seconds(clock - confirmedAt)
               IN  elapsed' = (IF d < 0 THEN 0 ELSE IF d > time THEN time ELSE d) ]_vars

\* C13: the steps of the loop follow one another in the order draw, poll,
\* read and dispatch of one event (or a timeout), time-advance, draw; a draw
\* renders the current state; the event changes only in a read or a poll;
\* and a time-advance in Running mode recomputes elapsed whatever happened
\* in the iteration.
C13_IterationOrder ==
    [][ /\ (pc' # pc)
          => /\ (pc = "run_app" => pc' = "draw")
             /\ (pc = "draw" => pc' \in {"poll", "disable_raw_mode"})
             /\ (pc = "poll" => pc' \in {"read", "time_advance", "disable_raw_mode"})
             /\ (pc = "read" => pc' \in {"dispatch", "disable_raw_mode"})
             /\ (pc = "dispatch" => pc' \in {"time_advance", "disable_raw_mode"})
             /\ (pc = "time_advance" => pc' = "draw")
             /\ (pc' = "draw" => pc \in {"run_app", "time_advance"})
        /\ (pc = "draw" /\ pc' = "poll")
             => (frame' = ui(mode, time, elapsed) /\ UNCHANGED appVars)
        /\ (frame' # frame => (pc = "draw" /\ pc' = "poll"))
        /\ (ev' # ev => (pc \in {"poll", "read"} /\ pc' # pc))
        /\ (pc = "time_advance" /\ pc' = "draw" /\ mode = "Running")
             => elapsed' = Recompute(clock, time) ]_vars

\* a frame has been drawn in Running mode after the dispatch of a key and
\* the time-advance that followed it, and it shows the elapsed second
C13_Witness ==
    /\ pc = "poll" /\ mode = "Running" /\ arm = "ignored" /\ ev = "x"
    /\ elapsed > 0 /\ frame.text = time - elapsed

\* C14: run_app returns Ok only in the dispatch of q in Input mode, and the
\* dispatch of any key in Running mode goes on to the time-advance.
C14_QuitOnlyInInput ==
    [][ /\ (result' = "Ok" /\ result # "Ok")
             => (pc = "dispatch" /\ mode = "Input" /\ ev = "q")
        /\ (pc = "dispatch" /\ pc' # pc /\ mode = "Running")
             => (pc' = "time_advance" /\ result' = result)
        /\ (pc \in {"draw", "poll", "read", "dispatch", "time_advance"}
              /\ pc' = "disable_raw_mode")
             => (result' = "Ok" \/ result' \in LoopErrors) ]_vars

\* the loop has returned Ok on a q read in Input mode with a target set
C14_Witness ==
    /\ pc = "disable_raw_mode" /\ result = "Ok"
    /\ arm = "quit" /\ ev = "q" /\ mode = "Input" /\ time > 0

\* C15: elapsed = 0 whenever the mode is Input, a frame drawn in Input mode
\* shows time, and the dispatch of Enter does not write elapsed.
C15_InputShowsTarget ==
    [][ /\ (mode = "Input" => elapsed = 0)
        /\ (mode' = "Input" => elapsed' = 0)
        /\ (pc = "draw" /\ pc' = "poll" /\ mode = "Input")
             => frame'.text = time
        /\ (pc = "dispatch" /\ pc' # pc /\ mode = "Input" /\ ev = "Enter")
             => elapsed' = elapsed ]_vars

\* a frame showing the target has been drawn in Input mode after a cancel
C15_Witness ==
    /\ pc = "poll" /\ mode = "Input" /\ arm = "cancel"
    /\ time > 0 /\ frame.text = time /\ frame.instruction = "Input"

\* C16: the mode becomes Running only in the dispatch of Enter, which sets
\* start to the clock read at that step; start does not change while
\* Running; and a time-advance in Input mode computes nothing.
C16_StartIsLastConfirm ==
    [][ /\ (mode = "Input" /\ mode' = "Running")
             => (pc = "dispatch" /\ ev = "Enter" /\ start' = TimeOfDay(clock))
        /\ (pc = "dispatch" /\ pc' # pc /\ mode = "Input" /\ ev = "Enter")
             => (mode' = "Running" /\ start' = TimeOfDay(clock))
        /\ (mode = "Running" => start' = start)
        /\ (pc = "time_advance" /\ mode = "Input") => elapsed' = elapsed ]_vars

\* a timeout iteration in Running mode has counted a second from a confirm
\* made after the clock had moved
C16_Witness ==
    /\ pc = "draw" /\ mode = "Running" /\ arm = "timeout"
    /\ confirmedAt > 0 /\ start = TimeOfDay(confirmedAt) /\ elapsed > 0

\* C17: the dispatch of a mouse or resize event changes none of mode, time,
\* start and elapsed and goes on to the time-advance, which changes none of
\* mode, time and start, recomputes elapsed when Running and ends the
\* iteration.
C17_NonKeyEvent ==
    [][ /\ (pc = "dispatch" /\ pc' # pc /\ ev \in {"Mouse", "Resize"})
             => (/\ UNCHANGED <<mode, time, start, elapsed>>
                 /\ arm' = "not_a_key"
                 /\ pc' = "time_advance")
        /\ (pc = "time_advance" /\ pc' # pc /\ arm = "not_a_key")
             => (/\ UNCHANGED <<mode, time, start>>
                 /\ pc' = "draw"
                 /\ elapsed' = (IF mode = "Running"
                                  THEN Recompute(clock, time) ELSE elapsed)) ]_vars

\* an iteration that read a mouse event in Running mode, mouse capture
\* being on, has ended with a second counted
C17_Witness ==
    /\ pc = "draw" /\ arm = "not_a_key" /\ ev = "Mouse" /\ mouse
    /\ mode = "Running" /\ elapsed > 0


====
